---- MODULE Spec2Model ----
(***************************************************************************)
(* Model of the audio visualizer of src/index.html (class Visualizer) and   *)
(* of the login page of src/auth.js.                                       *)
(*                                                                         *)
(* Several specifications share the module:                                *)
(*   Spec      the style controller: the two 'change' listeners of the     *)
(*             style selector, createVisualizer, clearScene, the four      *)
(*             create*Visualizer constructors and the animation tick;      *)
(*   WaveSpec  the wave/particle style: createWaveVisualizer, detectBeats, *)
(*             emitParticles and updateWaveVisualizer;                     *)
(*   ParticleSpec  one slot of the particle pool with its position,        *)
(*             velocity and size: emission and the particle pass of        *)
(*             updateWaveVisualizer (ParticleFairSpec adds the fairness of *)
(*             the host loop);                                             *)
(*   DegenerateSpec  the Shaders style fed with spectrum snapshots of      *)
(*             every length, the empty one included;                       *)
(*   TowersSpec  the treadmill of the Towers style on one tower of the     *)
(*             grid, with the camera of the style;                         *)
(*   ColumnSpec  the treadmill on all the towers of one column of the grid;*)
(*   AuthSpec  the login form, the stored users and current user, and the  *)
(*             Visualizer instances the page constructs;                   *)
(*   PlayerSpec  the audio player: playlist, file loads in flight and the  *)
(*             buffer source nodes.                                        *)
(*                                                                         *)
(* Numbers: JavaScript doubles are modelled in fixed point.  Levels,       *)
(* energies and intensities are in thousandths (Scale = 1.0); times are in *)
(* units of 1/UnitsPerSecond seconds.                                      *)
(***************************************************************************)
EXTENDS Integers, Sequences, FiniteSets, TLC

VARIABLES
    \* ---- style controller (fields of Visualizer) ----
    currentStyle,      \* this.currentStyle
    camera,            \* this.camera: [kind, fov]
    orbitOnCamera,     \* this.orbitControls.object === this.camera
    originalCamera,    \* this.originalCamera: "null" or the kind of the clone
    bars,              \* this.bars.length
    towers,            \* this.towers.length
    groundPlane,       \* this.groundPlane !== null
    starfield,         \* this.starfield !== null
    pointsMesh,        \* this.pointsMesh !== null
    shaderPlane,       \* this.shaderPlane !== null
    shaderMaterial,    \* this.shaderMaterial !== null
    audioDataArray,    \* this.audioDataArray !== null
    scene,             \* this.scene.children, counted per kind of object
    shaderTime,        \* this.shaderTime
    smoothed,          \* low/mid/high/overall FreqSmoothed
    analyser,          \* this.analyser !== null
    sunLight,          \* this.sunLight.intensity
    failedStyle,       \* style whose construction raised in the last createVisualizer
    dispatch,          \* 'change' event being dispatched: value and listeners left
    pausedFor,         \* wall-clock time the host loop ran no tick since the last
                       \* clock.getDelta()
    tickInfo,          \* what the last animate() did (observation)
    transition,        \* the steps the listeners of the 'change' event dispatched
                       \* since the last animation frame ran, in order (observation)
    \* ---- wave / particle style ----
    particleSystem,    \* this.particleSystem !== null (wave style constructed)
    particleLifetimes, \* this.particleLifetimes
    particleCount,     \* this.particleCount
    beat,              \* this.beatDetectionVars
    elapsedTime,       \* this.clock.elapsedTime
    frame,             \* animation frames the wave style has run
    lastTick,          \* what the last updateWaveVisualizer did (observation)
    exhibitionFrames,  \* this.exhibitionFrames: position, geometry width and
                       \* height, and scale of each frame mesh
    \* ---- one slot of the particle pool, with its render attributes ----
    particle,          \* lifetime, position, velocity, initialSize,
                       \* frameInteractions and size of the slot
    \* ---- one tower of the grid of the Towers style ----
    tower,             \* position.z and scale.y of the tower mesh
    cameraPosition,    \* this.camera.position.z while the Towers style runs
    \* ---- the page: login form, stored users, Visualizer instances (auth.js) ----
    auth,
    \* ---- the audio player of one Visualizer ----
    player,
    \* ---- the towers of one column of the Towers grid ----
    towerColumn

styleVars == <<currentStyle, camera, orbitOnCamera, originalCamera, bars, towers,
               groundPlane, starfield, pointsMesh, shaderPlane, shaderMaterial,
               audioDataArray, scene, shaderTime, smoothed, analyser, sunLight,
               failedStyle, dispatch, pausedFor, tickInfo, transition>>

waveVars == <<particleSystem, particleLifetimes, particleCount, beat, elapsedTime,
              frame, lastTick, exhibitionFrames>>

vars == <<styleVars, waveVars, particle, tower, cameraPosition, auth, player,
          towerColumn>>

----------------------------------------------------------------------------
(* Bounds of the model *)

SpectrumLen == 5        \* bins of a frequency snapshot (dataArray.length)
MaxLights == 10         \* lights in the scene: selections stop beyond this
MaxShaderTime == 2      \* shaderTime, in time units: ticks stop beyond this
MaxPause == 1           \* wall-clock time units the host loop can stay suspended

(* Program constants *)

Scale == 1000                   \* fixed-point 1.0
barCount == 64
gridSize == 20
defaultFov == 75

Styles == {"bars", "points", "towers", "shaders"}

\* identifiers a 'change' event can carry: the four options of the selector and
\* one value outside them (the wave style has code but no option and no case)
Identifiers == Styles \cup {"wave"}

ByteLevels == {0, 255}

Spectra == [1..SpectrumLen -> ByteLevels]

Deltas == {1, 2}

\* where createShadersVisualizer can raise inside its try block
\*   first     the first allocation raises (before the camera clone is stored)
\*   material  new THREE.PlaneGeometry / new THREE.ShaderMaterial raises
\*   mesh      new THREE.Mesh raises (the material is already assigned)
\*   add       scene.add raises (the plane is assigned, not yet in the scene)
\*   camera    new THREE.OrthographicCamera raises (the plane is in the scene)
\*   late      a statement after the camera swap raises
FailPoints == {"none", "first", "material", "mesh", "add", "camera", "late"}

\* the constructors of the other styles have no try block: the model lets their
\* first allocation raise
FailPointsOf(style) == IF style = "shaders" THEN FailPoints ELSE {"none", "first"}

----------------------------------------------------------------------------
(* Arithmetic helpers *)

RECURSIVE SumFromTo(_, _, _)
SumFromTo(f, a, b) == IF a > b THEN 0 ELSE f[a] + SumFromTo(f, a + 1, b)

\* freqData[i] / 255.0
Norm(b) == (b * Scale) \div 255

\* x * 0.1, rounded toward zero
Tenth(x) == IF x >= 0 THEN x \div 10 ELSE -((-x) \div 10)

\* the JavaScript NaN: the result of 0 / 0.  Every other number of the model
\* that can be NaN is a level, hence not negative.
NaN == -1

\* mean normalized magnitude of bins a+1..b (0-based a..b-1 in the source):
\* the sum over the range divided by its size, with no test for an empty range
BandMean(data, a, b) ==
    IF b = a THEN NaN
    ELSE SumFromTo([i \in DOMAIN data |-> Norm(data[i])], a + 1, b) \div (b - a)

----------------------------------------------------------------------------
(* The Visualizer object as a record, so that methods compose *)

This ==
    [currentStyle |-> currentStyle, camera |-> camera, orbitOnCamera |-> orbitOnCamera,
     originalCamera |-> originalCamera, bars |-> bars, towers |-> towers,
     groundPlane |-> groundPlane, starfield |-> starfield, pointsMesh |-> pointsMesh,
     shaderPlane |-> shaderPlane, shaderMaterial |-> shaderMaterial,
     audioDataArray |-> audioDataArray, scene |-> scene, shaderTime |-> shaderTime,
     smoothed |-> smoothed, analyser |-> analyser, sunLight |-> sunLight,
     failedStyle |-> failedStyle, transition |-> transition]

Assign(v) ==
    /\ currentStyle' = v.currentStyle
    /\ camera' = v.camera
    /\ orbitOnCamera' = v.orbitOnCamera
    /\ originalCamera' = v.originalCamera
    /\ bars' = v.bars
    /\ towers' = v.towers
    /\ groundPlane' = v.groundPlane
    /\ starfield' = v.starfield
    /\ pointsMesh' = v.pointsMesh
    /\ shaderPlane' = v.shaderPlane
    /\ shaderMaterial' = v.shaderMaterial
    /\ audioDataArray' = v.audioDataArray
    /\ scene' = v.scene
    /\ shaderTime' = v.shaderTime
    /\ smoothed' = v.smoothed
    /\ analyser' = v.analyser
    /\ sunLight' = v.sunLight
    /\ failedStyle' = v.failedStyle
    /\ transition' = v.transition

PerspectiveCamera == [kind |-> "perspective", fov |-> defaultFov]
OrthographicCamera == [kind |-> "orthographic", fov |-> 0]

ZeroBands == [low |-> 0, mid |-> 0, high |-> 0, overall |-> 0]

\* the scene after init(): the ambient light and the sun light
InitScene == [bar |-> 0, tower |-> 0, groundPlane |-> 0, starfield |-> 0,
              pointsMesh |-> 0, shaderPlane |-> 0, light |-> 2]

Max0(n) == IF n < 0 THEN 0 ELSE n

----------------------------------------------------------------------------
(* clearScene *)

ResetShaderState_Keep(v) == v

\* the last statements of clearScene: shaderTime and the smoothed bands
ResetShaderState(v) == [v EXCEPT !.shaderTime = 0, !.smoothed = ZeroBands]

clearScene(v) ==
  ResetShaderState(
    [v EXCEPT
        !.transition = Append(@, "clearScene"),
        !.scene = [bar |-> Max0(v.scene.bar - v.bars),
                   tower |-> Max0(v.scene.tower - v.towers),
                   groundPlane |-> IF v.groundPlane THEN 0 ELSE v.scene.groundPlane,
                   starfield |-> IF v.starfield THEN 0 ELSE v.scene.starfield,
                   pointsMesh |-> IF v.pointsMesh THEN 0 ELSE v.scene.pointsMesh,
                   shaderPlane |-> IF v.shaderPlane THEN 0 ELSE v.scene.shaderPlane,
                   light |-> v.scene.light],
        !.groundPlane = FALSE,
        !.starfield = FALSE,
        !.bars = 0,
        !.towers = 0,
        !.pointsMesh = FALSE,
        !.shaderPlane = FALSE,
        !.shaderMaterial = FALSE])

----------------------------------------------------------------------------
(* The constructors of the four styles.  Each returns the object and       *)
(* whether an exception left the constructor.                              *)

Done(v) == [v |-> v, thrown |-> FALSE]
Thrown(v) == [v |-> v, thrown |-> TRUE]

createBars(v) ==
    [v EXCEPT !.bars = v.bars + barCount,
              !.scene.bar = v.scene.bar + barCount]

createBarsOrRaise(v, fail) ==
    IF fail = "none" THEN Done(createBars(v))
    ELSE Thrown([v EXCEPT !.failedStyle = "bars"])

createPointsVisualizer(v, fail) ==
    IF fail = "none"
    THEN Done([v EXCEPT !.pointsMesh = TRUE,
                        !.scene.pointsMesh = v.scene.pointsMesh + 1,
                        !.scene.light = v.scene.light + 2])
    ELSE Thrown([v EXCEPT !.failedStyle = "points"])

createTowersVisualizer(v, fail) ==
    IF fail = "none"
    THEN Done([v EXCEPT !.towers = gridSize * (gridSize * 2),
                        !.groundPlane = TRUE,
                        !.starfield = TRUE,
                        !.scene.groundPlane = v.scene.groundPlane + 1,
                        !.scene.starfield = v.scene.starfield + 1,
                        !.scene.tower = v.scene.tower + gridSize * (gridSize * 2)])
    ELSE Thrown([v EXCEPT !.failedStyle = "towers"])

\* the try block of createShadersVisualizer, up to the statement that raises
ShadersTry(v, fail) ==
    LET s0 == [v EXCEPT !.shaderPlane = FALSE, !.shaderMaterial = FALSE,
                        !.shaderTime = 0]
        s1 == [s0 EXCEPT !.originalCamera = s0.camera.kind]
        s2 == [s1 EXCEPT !.shaderMaterial = TRUE]
        s3 == [s2 EXCEPT !.shaderPlane = TRUE]
        s4 == [s3 EXCEPT !.scene.shaderPlane = s3.scene.shaderPlane + 1]
        s5 == [s4 EXCEPT !.camera = OrthographicCamera, !.orbitOnCamera = FALSE]
        s6 == [s5 EXCEPT !.audioDataArray = TRUE]
    IN  CASE fail = "first"    -> s0
          [] fail = "material" -> s1
          [] fail = "mesh"     -> s2
          [] fail = "add"      -> s3
          [] fail = "camera"   -> s4
          [] fail = "late"     -> s5
          [] OTHER             -> s6

\* mutant: the catch block records the fallback style and builds nothing
ShadersCatch_NoBars(v) ==
    [v EXCEPT !.currentStyle = "bars", !.failedStyle = "shaders"]

\* the catch block: fall back to the bars
ShadersCatch(v) ==
    createBars([v EXCEPT !.currentStyle = "bars", !.failedStyle = "shaders"])

createShadersVisualizer(v, fail) ==
    IF fail = "none" THEN Done(ShadersTry(v, fail))
    ELSE Done(ShadersCatch(ShadersTry(v, fail)))

----------------------------------------------------------------------------
(* createVisualizer *)

\* "Restore camera if switching FROM shaders visualizer": previousStyle is read
\* from this.currentStyle, which the listener has already overwritten
RestoreCamera(v, previousStyle) ==
    IF previousStyle = "shaders"
    THEN [v EXCEPT !.camera = PerspectiveCamera,
                   !.orbitOnCamera = TRUE,
                   !.originalCamera = "null",
                   !.transition = Append(@, "restoreCamera")]
    ELSE v

Construct(v, fail) ==
    CASE v.currentStyle = "bars"    -> createBarsOrRaise(v, fail)
      [] v.currentStyle = "points"  -> createPointsVisualizer(v, fail)
      [] v.currentStyle = "towers"  -> createTowersVisualizer(v, fail)
      [] v.currentStyle = "shaders" -> createShadersVisualizer(v, fail)
      [] OTHER                      -> Done(v)

\* this.renderer.render(this.scene, this.camera) at the end of createVisualizer
Render(v) == [v EXCEPT !.transition = Append(@, "render")]

createVisualizer(v, fail) ==
    LET previousStyle == v.currentStyle
        cleared == clearScene(v)
        restored == RestoreCamera(cleared, previousStyle)
        built == Construct([restored EXCEPT !.failedStyle = "none"], fail)
        constructed == IF v.currentStyle \in Styles
                       THEN [built.v EXCEPT !.transition = Append(@, "construct")]
                       ELSE built.v
    IN  IF built.thrown THEN constructed ELSE Render(constructed)

\* a 'change' listener of the style selector
ChangeListener(v, value, fail) ==
    createVisualizer([v EXCEPT !.currentStyle = value], fail)

----------------------------------------------------------------------------
(* The animation tick of the style controller *)

\* Math.floor(length * 0.2) and Math.floor(length * 0.6)
lowMidBound(n) == (n * 2) \div 10
midHighBound(n) == (n * 6) \div 10

Smooth_Overshoot(old, raw) == old + 11 * Tenth(raw - old)

\* this.xSmoothed = this.xSmoothed || x;  this.xSmoothed += (x - this.xSmoothed) * 0.1
\* (0 and NaN are falsy; arithmetic on NaN gives NaN)
Smooth(old, raw) ==
    LET start == IF old \in {0, NaN} THEN raw ELSE old
    IN  IF raw = NaN THEN NaN ELSE start + Tenth(raw - start)

\* the four raw band values of one snapshot
RawBands(data) ==
    LET n == Len(data)
    IN  [low |-> BandMean(data, 0, lowMidBound(n)),
         mid |-> BandMean(data, lowMidBound(n), midHighBound(n)),
         high |-> BandMean(data, midHighBound(n), n),
         overall |-> BandMean(data, 0, n)]

updateShadersVisualizer(v, data, delta) ==
    IF ~v.shaderMaterial THEN v
    ELSE
      LET timed == [v EXCEPT !.shaderTime = v.shaderTime + delta]
          raw == RawBands(data)
      IN  IF ~v.analyser \/ ~v.audioDataArray THEN timed
          ELSE [timed EXCEPT
                  !.smoothed = [low |-> Smooth(v.smoothed.low, raw.low),
                                mid |-> Smooth(v.smoothed.mid, raw.mid),
                                high |-> Smooth(v.smoothed.high, raw.high),
                                overall |-> Smooth(v.smoothed.overall, raw.overall)]]

updateVisualizer(v, data, delta) ==
    IF ~v.analyser THEN v
    ELSE
      LET averageLevel == BandMean(data, 0, Len(data))
          lit == [v EXCEPT !.sunLight = IF averageLevel = NaN THEN NaN
                                        ELSE Scale + averageLevel]
      IN  IF v.currentStyle = "shaders"
          THEN updateShadersVisualizer(lit, data, delta)
          ELSE lit

\* mutant: the update does not wait for the analyser
UpdateCalls_NoGuard(v) ==
    CASE v.currentStyle = "bars" -> <<"updateBars">>
      [] v.currentStyle = "points" -> <<"updatePointsVisualizer">>
      [] v.currentStyle = "towers" -> <<"updateTowersVisualizer">>
      [] v.currentStyle = "shaders" -> <<"updateShadersVisualizer">>
      [] OTHER -> << >>

UpdateCalls_WithWave(v) ==
    IF ~v.analyser THEN << >>
    ELSE CASE v.currentStyle = "bars" -> <<"updateBars">>
           [] v.currentStyle = "points" -> <<"updatePointsVisualizer">>
           [] v.currentStyle = "towers" -> <<"updateTowersVisualizer">>
           [] v.currentStyle = "shaders" -> <<"updateShadersVisualizer">>
           [] v.currentStyle = "wave" -> <<"updateWaveVisualizer">>
           [] OTHER -> << >>

\* the per-style update methods one updateVisualizer() invokes
UpdateCalls(v) ==
    IF ~v.analyser THEN << >>
    ELSE CASE v.currentStyle = "bars" -> <<"updateBars">>
           [] v.currentStyle = "points" -> <<"updatePointsVisualizer">>
           [] v.currentStyle = "towers" -> <<"updateTowersVisualizer">>
           [] v.currentStyle = "shaders" -> <<"updateShadersVisualizer">>
           [] OTHER -> << >>

\* this.clock.getDelta(): the wall-clock time since the clock was last read
ClockDelta(frameTime, paused) == frameTime + paused

----------------------------------------------------------------------------
(* Specification of the style controller *)

\* no 'change' event has been dispatched since the last animation frame
NoTransition == << >>

Idle == [value |-> "none", left |-> 0]

\* the state after new Visualizer(): init() and the constructor have both run
\* createVisualizer for the bars
StyleInit ==
    /\ currentStyle = "bars"
    /\ camera = PerspectiveCamera
    /\ orbitOnCamera = TRUE
    /\ originalCamera = "null"
    /\ bars = barCount
    /\ towers = 0
    /\ groundPlane = FALSE
    /\ starfield = FALSE
    /\ pointsMesh = FALSE
    /\ shaderPlane = FALSE
    /\ shaderMaterial = FALSE
    /\ audioDataArray = FALSE
    /\ scene = [InitScene EXCEPT !.bar = barCount]
    /\ shaderTime = 0
    /\ smoothed = ZeroBands
    /\ analyser = FALSE
    /\ sunLight = (3 * Scale) \div 2
    /\ failedStyle = "none"
    /\ dispatch = Idle
    /\ pausedFor = 0
    /\ tickInfo = [ticked |-> FALSE, calls |-> << >>, frameDelta |-> 0,
                   shaderAdvance |-> 0]
    /\ transition = NoTransition

\* the wave style is not constructed
WaveAbsent ==
    /\ particleSystem = FALSE
    /\ particleLifetimes = << >>
    /\ particleCount = 0
    /\ beat = [energyHistory |-> << >>, lastBeatTime |-> 0, bassEnergy |-> 0,
               trebleEnergy |-> 0, bassBeat |-> 0, trebleBeat |-> 0,
               emitCooldown |-> 0]
    /\ elapsedTime = 0
    /\ frame = 0
    /\ lastTick = [ran |-> FALSE, fired |-> FALSE, sample |-> 0, since |-> 0,
                   primary |-> FALSE, sincePrimary |-> -1, gap |-> -1,
                   emitted |-> << >>]
    /\ exhibitionFrames = << >>

\* a slot of the pool as createWaveVisualizer initialises it
EmptySlot ==
    [lifetime |-> -1, position |-> [x |-> 0, y |-> 0, z |-> 0],
     velocity |-> [x |-> 0, y |-> 0, z |-> 0], initialSize |-> 0,
     frameInteractions |-> 0, size |-> 0,
     prev |-> [position |-> [x |-> 0, y |-> 0, z |-> 0],
               velocity |-> [x |-> 0, y |-> 0, z |-> 0], frameInteractions |-> 0]]

\* this.towers is empty until createTowersVisualizer runs
\* no column of the grid is followed
NoColumn == [x |-> 0, positionX |-> 0, ticks |-> 0, towers |-> << >>]

NoTower ==
    [z |-> 0, scaleY |-> 0, ticks |-> 0,
     prev |-> [ticked |-> FALSE, z |-> 0, scaleY |-> 0, value |-> 0, delta |-> 0]]

\* the page once a stored user has been found at load time: the main
\* application is shown and one Visualizer has been constructed
LoggedIn ==
    [users |-> [u \in {"alice"} |-> "secret1"], currentUser |-> "alice",
     isLogin |-> TRUE, authTitle |-> "Login", authSubmit |-> "Login",
     modalHidden |-> TRUE, mainAppShown |-> TRUE,
     visualizers |-> 1, canvases |-> 1, loops |-> 1,
     last |-> [kind |-> "load", username |-> "", password |-> "", isLogin |-> TRUE,
               success |-> FALSE]]

\* the audio fields the Visualizer constructor sets: no audio context, no
\* files, nothing decoded, no source node; loads is the list of file loads
\* whose decode callback has not run yet and orphans the number of started
\* source nodes this.source no longer refers to
NewPlayer ==
    [audioContext |-> FALSE, audioFiles |-> << >>, currentTrackIndex |-> 0,
     audioBuffer |-> 0, source |-> "undefined", isPlaying |-> FALSE,
     loads |-> << >>, orphans |-> 0]

\* this.camera.position.set(0, 10, 20) of the basic scene set-up
BasicPose == [z |-> 20 * Scale, prev |-> [ticked |-> FALSE, z |-> 0, delta |-> 0]]

Init ==
    /\ StyleInit /\ WaveAbsent /\ particle = EmptySlot /\ tower = NoTower
    /\ cameraPosition = BasicPose
    /\ auth = LoggedIn
    /\ player = NewPlayer
    /\ towerColumn = NoColumn

\* first 'change' listener of the selector (setupControls, lines 409-412)
ChangeListener1 ==
    /\ dispatch.left = 0
    /\ \E value \in Identifiers :
         /\ value = "points" => scene.light < MaxLights
         /\ \E fail \in FailPointsOf(value) :
              Assign(ChangeListener(
                         [This EXCEPT !.transition = NoTransition],
                         value, fail))
         /\ dispatch' = [value |-> value, left |-> 1]
    /\ UNCHANGED <<pausedFor, tickInfo>>
    /\ UNCHANGED waveVars
    /\ UNCHANGED <<particle, tower, cameraPosition, auth, player, towerColumn>>

\* second 'change' listener of the selector (setupControls, lines 415-418)
ChangeListener2 ==
    /\ dispatch.left = 1
    /\ \E fail \in FailPointsOf(dispatch.value) :
         Assign(ChangeListener(This, dispatch.value, fail))
    /\ dispatch' = Idle
    /\ UNCHANGED <<pausedFor, tickInfo>>
    /\ UNCHANGED waveVars
    /\ UNCHANGED <<particle, tower, cameraPosition, auth, player, towerColumn>>

\* first user interaction creates the audio context and the analyser
InitAudioContext ==
    /\ dispatch.left = 0
    /\ ~analyser
    /\ analyser' = TRUE
    /\ UNCHANGED <<currentStyle, camera, orbitOnCamera, originalCamera, bars, towers,
                   groundPlane, starfield, pointsMesh, shaderPlane, shaderMaterial,
                   audioDataArray, scene, shaderTime, smoothed, sunLight,
                   failedStyle, dispatch, pausedFor, tickInfo, transition>>
    /\ UNCHANGED waveVars
    /\ UNCHANGED <<particle, tower, cameraPosition, auth, player, towerColumn>>

\* the host (requestAnimationFrame) schedules no frame for a while, e.g. while the
\* page is hidden; the THREE.Clock started by the first tick keeps running
HostPause ==
    /\ dispatch.left = 0
    /\ analyser
    /\ pausedFor < MaxPause
    /\ pausedFor' = pausedFor + 1
    /\ UNCHANGED <<currentStyle, camera, orbitOnCamera, originalCamera, bars, towers,
                   groundPlane, starfield, pointsMesh, shaderPlane, shaderMaterial,
                   audioDataArray, scene, shaderTime, smoothed, analyser, sunLight,
                   failedStyle, dispatch, tickInfo, transition>>
    /\ UNCHANGED waveVars
    /\ UNCHANGED <<particle, tower, cameraPosition, auth, player, towerColumn>>

\* animate(): one animation frame; delta is the frame time, clock.getDelta() is
\* the wall-clock time since the clock was last read
TickOn(snapshots) ==
    /\ dispatch.left = 0
    /\ \E data \in snapshots, delta \in Deltas :
         LET getDelta == ClockDelta(delta, pausedFor)
         IN  /\ (currentStyle = "shaders" /\ shaderMaterial)
                   => shaderTime + getDelta <= MaxShaderTime
             /\ \E v \in {updateVisualizer(This, data, getDelta)} :
                   /\ Assign([v EXCEPT !.transition = NoTransition])
                   /\ tickInfo' = [ticked |-> TRUE, calls |-> UpdateCalls(This),
                                   frameDelta |-> delta,
                                   shaderAdvance |-> v.shaderTime - shaderTime]
    /\ pausedFor' = IF analyser THEN 0 ELSE pausedFor
    /\ UNCHANGED dispatch
    /\ UNCHANGED waveVars
    /\ UNCHANGED <<particle, tower, cameraPosition, auth, player, towerColumn>>

Tick == TickOn(Spectra)

Next == ChangeListener1 \/ ChangeListener2 \/ InitAudioContext \/ HostPause \/ Tick

Spec == Init /\ [][Next]_vars

----------------------------------------------------------------------------
(* Degenerate snapshots: the Shaders style fed with spectra of every length   *)
(* up to SpectrumLen, the empty one included (DegenerateSpec)                 *)

ShortSpectra == UNION { [1..n -> ByteLevels] : n \in 0..SpectrumLen }

\* the first listener of a 'change' event that selects Shaders
SelectShaders1 ==
    /\ ChangeListener1
    /\ dispatch'.value = "shaders"
    /\ failedStyle' = "none"

\* the second listener of that event
SelectShaders2 ==
    /\ ChangeListener2
    /\ failedStyle' = "none"

\* animate() with a snapshot of any length
ShortTick == TickOn(ShortSpectra)

DegenerateNext == SelectShaders1 \/ SelectShaders2 \/ InitAudioContext \/ ShortTick

DegenerateSpec == Init /\ [][DegenerateNext]_vars

----------------------------------------------------------------------------
(* Claims about the style controller (checked under Spec) *)

\* no 'change' event is half dispatched: the states an animation tick can see
BetweenTicks == dispatch.left = 0

\* C1: whenever the active style is not Shaders, the camera used for rendering
\* is the default perspective camera with field of view 75 (stated for the
\* transitions in which no construction failed, such as Bars -> Shaders -> Bars).
C1_DefaultCameraRestored ==
    (BetweenTicks /\ currentStyle # "shaders" /\ failedStyle = "none")
        => camera = PerspectiveCamera

\* C2: the scene holds no object created by a style that is no longer active:
\* besides the two lights of init() it holds only the lights of the active
\* Points style, so the number of scene objects stays bounded.
C2_NoLeakedSceneObjects ==
    BetweenTicks
        => scene.light = InitScene.light + (IF currentStyle = "points" THEN 2 ELSE 0)

\* C3: a 'change' event carrying an identifier that is not one of the four styles
\* is rejected: the current style, its scene resources and the camera are unchanged.
C3_InvalidIdentifierRejected ==
    [][(dispatch'.left = 1 /\ dispatch'.value \notin Styles)
        => /\ currentStyle' = currentStyle
           /\ scene' = scene
           /\ bars' = bars
           /\ camera' = camera]_vars

C5_OnlyActiveStyleResources ==
    BetweenTicks
        => /\ (bars > 0 => currentStyle = "bars")
           /\ (pointsMesh => currentStyle = "points")
           /\ ((towers > 0 \/ groundPlane \/ starfield) => currentStyle = "towers")
           /\ ((shaderPlane \/ shaderMaterial) => currentStyle = "shaders")

\* the update method that belongs to a style
UpdateOf(style) ==
    CASE style = "bars" -> "updateBars"
      [] style = "points" -> "updatePointsVisualizer"
      [] style = "towers" -> "updateTowersVisualizer"
      [] style = "shaders" -> "updateShadersVisualizer"
      [] OTHER -> "none"

\* C19 (as stated): on every animation tick, in every reachable state including
\* before the audio context exists, the per-frame update of the active style runs
\* exactly once.
C19_UpdateRunsOnEveryTick ==
    [][tickInfo' # tickInfo =>
        tickInfo'.calls = <<UpdateOf(currentStyle)>>]_vars

\* C19 (amended): on every animation tick the per-frame update of the active style
\* runs exactly once if the analyser exists and the style is one of the four
\* styles, and no update runs otherwise.
C19_UpdateRunsOnceWithAnalyser ==
    [][tickInfo' # tickInfo =>
        /\ (analyser /\ currentStyle \in Styles)
              => tickInfo'.calls = <<UpdateOf(currentStyle)>>
        /\ ~(analyser /\ currentStyle \in Styles) => tickInfo'.calls = << >>
        /\ ~analyser => (sunLight' = sunLight /\ shaderTime' = shaderTime)]_vars

\* ticks with and without an update have both happened: the last one updated the
\* Shaders style and advanced its time
C19_Witness ==
    /\ tickInfo.ticked
    /\ analyser
    /\ tickInfo.calls = <<"updateShadersVisualizer">>
    /\ tickInfo.shaderAdvance > 0

\* C20: after a pause of the host loop the first resumed tick changes the core
\* state as if the pause had not happened: shaderTime advances by the frame time
\* only, the paused duration is added to no timer.
C20_PauseAddsNoTime ==
    tickInfo.ticked => tickInfo.shaderAdvance \in {0, tickInfo.frameDelta}

\* the first listener of a 'change' event runs createVisualizer on a fully
\* constructed Shaders style and leaves it for another of the four styles
LeavesShaders ==
    /\ dispatch.left = 0
    /\ dispatch'.left = 1
    /\ currentStyle = "shaders"
    /\ shaderPlane
    /\ camera.kind = "orthographic"
    /\ currentStyle' \in Styles \ {"shaders"}
    /\ failedStyle' = "none"

\* C21: after every transition out of the Shaders style the orbit controller
\* is bound to the camera object that is used for rendering.
C21_OrbitFollowsRenderCamera ==
    [][LeavesShaders => orbitOnCamera']_vars

\* the steps of one full transition, in order; the camera restore is part of it
\* when a non-default camera has to be replaced
FullTransitions ==
    { <<"clearScene", "construct", "render">>,
      <<"clearScene", "restoreCamera", "construct", "render">> }

\* C22: every style change runs the full transition in order (teardown, camera
\* restore, construction of the incoming style) and then exactly one
\* synchronous render, all before the next animation tick.
C22_OneFullTransitionPerChange ==
    (BetweenTicks /\ transition # NoTransition) => transition \in FullTransitions

\* C23: right after every completed style transition the elapsed shader time
\* and the four smoothed band values are zero.
C23_TransitionResetsShaderState ==
    transition # NoTransition => (shaderTime = 0 /\ smoothed = ZeroBands)

ZeroSpectrum == [i \in 1..SpectrumLen |-> 0]

\* C24: after every tick the four smoothed band levels are within [0,1], and
\* from the reset state a tick with an all-zero snapshot leaves all four at zero.
C24_SmoothedLevelsInUnitInterval ==
    /\ \A band \in DOMAIN smoothed : smoothed[band] \in 0..Scale
    /\ smoothed = ZeroBands =>
          \A delta \in Deltas :
              updateVisualizer(This, ZeroSpectrum, delta).smoothed = ZeroBands

\* a Shaders tick has smoothed a snapshot that is loud in the low band and silent
\* in the high band: both ends of the interval are reached
C24_Witness ==
    /\ tickInfo.ticked
    /\ tickInfo.calls = <<"updateShadersVisualizer">>
    /\ tickInfo.shaderAdvance > 0
    /\ shaderTime > 0
    /\ smoothed.low = Scale
    /\ smoothed.high = 0

ShadersTick ==
    /\ shaderTime' > shaderTime
    /\ audioDataArray

\* band moved one tenth of the way from old toward raw
OneTenthToward(old, raw) == old + Tenth(raw - old)

\* C26: on every Shaders tick each smoothed band moves exactly one tenth of the
\* way toward its raw value, also when the smoothed value was zero before.
C26_SmoothingIsExactTenth ==
    [][ShadersTick =>
         \E data \in Spectra :
             \A band \in DOMAIN smoothed :
                 smoothed'[band] = OneTenthToward(smoothed[band], RawBands(data)[band])]_vars

\* a transition has just left a Shaders style whose last tick advanced the
\* shader time and smoothed a spectrum
C23_Witness ==
    /\ BetweenTicks
    /\ transition # NoTransition
    /\ tickInfo.ticked
    /\ tickInfo.shaderAdvance > 0
    /\ currentStyle \in Styles \ {"shaders"}
    /\ shaderTime = 0
    /\ smoothed = ZeroBands

\* C32: whatever is selected and however many ticks run, the wave/particle
\* style is never constructed and its update is never invoked: the particle
\* pool and the obstacle frames do not exist.
C32_WaveStyleNeverRuns ==
    /\ ~particleSystem
    /\ particleLifetimes = << >>
    /\ exhibitionFrames = << >>
    /\ "updateWaveVisualizer" \notin {tickInfo.calls[k] : k \in DOMAIN tickInfo.calls}

\* after a 'change' event a tick has run the update of one of the four styles,
\* and there is no particle pool
C32_Witness ==
    /\ tickInfo.ticked
    /\ tickInfo.calls # << >>
    /\ currentStyle = "towers"
    /\ scene.tower > 0
    /\ ~particleSystem
    /\ particleLifetimes = << >>

\* the second listener of a 'change' event repeats the transition the first
\* one completed, and no construction raised in either
RepeatsTransition ==
    /\ dispatch.left = 1
    /\ dispatch'.left = 0
    /\ dispatch.value \in Styles
    /\ failedStyle = "none"
    /\ failedStyle' = "none"

\* C33: running the transition to a style twice in a row leaves the controller
\* state of running it once: same active style, same scene objects, same
\* camera kind.
C33_TransitionIsIdempotent ==
    [][RepeatsTransition =>
          /\ currentStyle' = currentStyle
          /\ scene' = scene
          /\ camera'.kind = camera.kind]_vars

----------------------------------------------------------------------------
(* The wave / particle style *)

(* Bounds *)
PoolSize == 3           \* slots of the particle pool (3000 in the program)
HistorySize == 3        \* samples kept in energyHistory (30 in the program)
MaxFrames == 3          \* animation frames of the wave style that are explored

(* Program constants; times are in units of 1/UnitsPerSecond s = 50 ms *)
UnitsPerSecond == 20
particleLifespan == 60          \* 3.0 s
beatHoldTime == 4               \* 0.2 s
emitCooldownReset == 2          \* 0.1 s
emissionRate == 30
bassBeatLevel == 400             \* bassBeat > 0.4, in thousandths
trebleBeatLevel == 500           \* trebleBeat > 0.5, in thousandths
bassDecayPerUnit == 837         \* Math.pow(0.7, 10 * 0.05), in thousandths
trebleDecayPerUnit == 595       \* Math.pow(0.5, 15 * 0.05), in thousandths

maxParticles == PoolSize
historyLength == HistorySize


\* snapshots the wave tick is driven with: silence, a weak bass tone, a bass
\* spike, full scale on the upper half of the bins, full scale on every bin
WaveSpectra ==
    {[i \in 1..SpectrumLen |-> 0],
     [i \in 1..SpectrumLen |-> IF i = 1 THEN 51 ELSE 0],
     [i \in 1..SpectrumLen |-> IF i = 1 THEN 255 ELSE 0],
     [i \in 1..SpectrumLen |-> IF 2 * i > SpectrumLen THEN 255 ELSE 0],
     [i \in 1..SpectrumLen |-> 255]}

\* frame times: 0.05 s (half the emit cooldown), 0.2 s (exactly beatHoldTime)
\* and 1.5 s (half a particleLifespan)
WaveDeltas == {1, 4, 30}

RECURSIVE PowMilli(_, _)
\* Math.pow(base, n), base and result in thousandths
PowMilli(base, n) == IF n <= 0 THEN 1000 ELSE (base * PowMilli(base, n - 1)) \div 1000

Min(a, b) == IF a < b THEN a ELSE b

\* Math.floor(freqData.length * 0.2) and Math.floor(freqData.length * 0.6)
bassRange(n) == (n * 2) \div 10
trebleStart(n) == (n * 6) \div 10

Active(lifetimes) == {i \in DOMAIN lifetimes : lifetimes[i] >= 0}

Inactive_All(lifetimes) == DOMAIN lifetimes

\* this.particleLifetimes[j] < 0
Inactive(lifetimes) == {i \in DOMAIN lifetimes : lifetimes[i] < 0}

\* bassEnergy > averageEnergy * beat.beatThreshold, with beatThreshold = 1.5 and
\* averageEnergy the mean of the history
AboveAverage_NoThreshold(bassEnergy, history) ==
    bassEnergy * Len(history) > SumFromTo(history, 1, Len(history))

AboveAverage(bassEnergy, history) ==
    2 * bassEnergy * Len(history) > 3 * SumFromTo(history, 1, Len(history))

\* mutant: the hold time is compared with >=
HoldElapsed_Inclusive(currentTime, lastBeatTime) ==
    currentTime - lastBeatTime >= beatHoldTime

\* currentTime - beat.lastBeatTime > beat.beatHoldTime
HoldElapsed(currentTime, lastBeatTime) ==
    currentTime - lastBeatTime > beatHoldTime

\* mutant: the beat intensity is not clamped
Clamp1_None(x) == x

\* Math.min(x, 1.0)
Clamp1(x) == Min(x, Scale)

\* mutant: the newest sample is dropped when the history is full
PushHistory_DropNewest(energyHistory, bassEnergy) ==
    LET pushed == Append(energyHistory, bassEnergy)
    IN  IF Len(pushed) > historyLength THEN SubSeq(pushed, 1, Len(pushed) - 1)
        ELSE pushed

\* beat.energyHistory.push(bassEnergy); shift() when longer than 30
PushHistory(energyHistory, bassEnergy) ==
    LET pushed == Append(energyHistory, bassEnergy)
    IN  IF Len(pushed) > historyLength THEN Tail(pushed) ELSE pushed

\* detectBeats(freqData, deltaTime); currentTime is clock.getElapsedTime()
detectBeats(b, freqData, deltaTime, currentTime) ==
    LET n == Len(freqData)
        bassEnergy == BandMean(freqData, 0, bassRange(n))
        trebleEnergy == BandMean(freqData, trebleStart(n), n)
        smoothedBass == (b.bassEnergy * 9 + bassEnergy) \div 10
        smoothedTreble == (b.trebleEnergy * 9 + trebleEnergy) \div 10
        history == PushHistory(b.energyHistory, bassEnergy)
        bassFires == /\ AboveAverage(bassEnergy, history)
                     /\ HoldElapsed(currentTime, b.lastBeatTime)
        \* trebleEnergy > beat.trebleEnergy * 1.3
        trebleFires == 10 * trebleEnergy > 13 * smoothedTreble
    IN  [fired |-> bassFires,
         sample |-> bassEnergy,
         beat |->
           [b EXCEPT
              !.bassEnergy = smoothedBass,
              !.trebleEnergy = smoothedTreble,
              !.energyHistory = history,
              !.lastBeatTime = IF bassFires THEN currentTime ELSE b.lastBeatTime,
              !.bassBeat = IF bassFires THEN Clamp1(bassEnergy * 2)
                           ELSE (b.bassBeat * PowMilli(bassDecayPerUnit, deltaTime))
                                    \div 1000,
              !.trebleBeat = IF trebleFires THEN Clamp1((trebleEnergy * 3) \div 2)
                             ELSE (b.trebleBeat * PowMilli(trebleDecayPerUnit, deltaTime))
                                      \div 1000]]

\* mutant: the scan returns the last inactive slot
FirstInactive_Last(lifetimes) ==
    IF Inactive(lifetimes) = {} THEN 0
    ELSE CHOOSE j \in Inactive(lifetimes) : \A k \in Inactive(lifetimes) : j >= k

\* the slot scan of emitParticles: 0 when no slot is inactive
FirstInactive(lifetimes) ==
    IF Inactive(lifetimes) = {} THEN 0
    ELSE CHOOSE j \in Inactive(lifetimes) : \A k \in Inactive(lifetimes) : j <= k

RECURSIVE EmitLoop(_, _)
EmitLoop(lifetimes, n) ==
    LET particleIndex == FirstInactive(lifetimes)
    IN  IF n <= 0 \/ particleIndex = 0 THEN lifetimes
        ELSE EmitLoop([lifetimes EXCEPT ![particleIndex] = particleLifespan], n - 1)

\* Math.floor(count * (1 + bassIntensity))
baseBurstSize(count, bassIntensity) == (count * (Scale + bassIntensity)) \div Scale

\* emitParticles(count, bassIntensity, trebleIntensity): the pool afterwards
emitParticles(lifetimes, count, bassIntensity, count0) ==
    EmitLoop(lifetimes, Min(baseBurstSize(count, bassIntensity), maxParticles - count0))

\* one call of emitParticles as seen from outside
EmitCall(lifetimes, count, bassIntensity, count0) ==
    [count |-> count, bass |-> bassIntensity, before |-> lifetimes,
     after |-> emitParticles(lifetimes, count, bassIntensity, count0)]

\* mutant: the particles emitted in this tick are skipped by the lifetime pass
AgeParticles_SkipNew(lifetimes, delta) ==
    [i \in DOMAIN lifetimes |->
        IF lifetimes[i] < 0 \/ lifetimes[i] = particleLifespan THEN lifetimes[i]
        ELSE lifetimes[i] - delta]

\* mutant: the lifetime is advanced instead of decremented
AgeParticles_Advance(lifetimes, delta) ==
    [i \in DOMAIN lifetimes |->
        IF lifetimes[i] < 0 THEN lifetimes[i] ELSE lifetimes[i] + delta]

\* the lifetime pass of updateWaveVisualizer
AgeParticles(lifetimes, delta) ==
    [i \in DOMAIN lifetimes |->
        IF lifetimes[i] < 0 THEN lifetimes[i] ELSE lifetimes[i] - delta]

\* mutant: the cooldown is not tested
CooldownElapsed_Always(emitCooldown) == TRUE

\* this.beatDetectionVars.emitCooldown <= 0
CooldownElapsed(emitCooldown) == emitCooldown <= 0

updateExhibitionSpace_Resize(frames, bassBeat) ==
    [j \in DOMAIN frames |->
        [frames[j] EXCEPT !.scale = Scale + (bassBeat * 5) \div 100,
                          !.width = (@ * (Scale + (bassBeat * 5) \div 100)) \div Scale,
                          !.height = (@ * (Scale + (bassBeat * 5) \div 100)) \div Scale]]

\* updateExhibitionSpace: frame.scale.set(scale, scale, 1) with
\* scale = 1.0 + bassBeat * 0.05 (rotation and opacity are not modelled)
updateExhibitionSpace(frames, bassBeat) ==
    [j \in DOMAIN frames |->
        [frames[j] EXCEPT !.scale = Scale + (bassBeat * 5) \div 100]]

\* updateWaveVisualizer(delta); the rolls are the outcomes of the two Math.random()
\* tests.  The clock is read twice in a frame (getDelta, then getElapsedTime in
\* detectBeats); at the resolution of the time unit both reads see the same time.
updateWaveVisualizer(w, data, delta, trebleRoll, ambientRoll) ==
    LET currentTime == w.elapsedTime + delta
        detected == detectBeats(w.beat, data, delta, currentTime)
        b1 == detected.beat
        averageLevel == BandMean(data, 0, Len(data))
        cooled == IF b1.emitCooldown > 0 THEN b1.emitCooldown - delta
                  ELSE b1.emitCooldown
        primary == b1.bassBeat > bassBeatLevel /\ CooldownElapsed(cooled)
        \* tick time since the last primary burst, kept up to emitCooldownReset + 1
        gap == IF w.lastTick.sincePrimary < 0 THEN -1
               ELSE Min(w.lastTick.sincePrimary + delta, emitCooldownReset + 1)
        call1 == EmitCall(w.particleLifetimes, (emissionRate * b1.bassBeat) \div Scale,
                          b1.bassBeat, w.particleCount)
        l1 == IF primary THEN call1.after ELSE w.particleLifetimes
        treble == b1.trebleBeat > trebleBeatLevel /\ trebleRoll
        call2 == EmitCall(l1, (3 * b1.trebleBeat) \div Scale,
                          (b1.bassBeat * 4) \div 10, w.particleCount)
        l2 == IF treble THEN call2.after ELSE l1
        ambient == averageLevel > 0 /\ ambientRoll
        call3 == EmitCall(l2, (2 * averageLevel) \div Scale, averageLevel,
                          w.particleCount)
        l3 == IF ambient THEN call3.after ELSE l2
        aged == AgeParticles(l3, delta)
    IN  [w EXCEPT
           !.beat = [b1 EXCEPT !.emitCooldown =
                        IF primary THEN emitCooldownReset ELSE cooled],
           !.particleLifetimes = aged,
           !.particleCount = Cardinality(Active(aged)),
           !.elapsedTime = currentTime,
           !.exhibitionFrames = updateExhibitionSpace(w.exhibitionFrames, b1.bassBeat),
           !.lastTick = [ran |-> TRUE,
                         fired |-> detected.fired,
                         sample |-> detected.sample,
                         since |-> currentTime - w.beat.lastBeatTime,
                         primary |-> primary,
                         sincePrimary |-> IF primary THEN 0 ELSE gap,
                         gap |-> IF primary THEN gap ELSE -1,
                         emitted |-> (IF primary THEN <<call1>> ELSE << >>)
                                     \o (IF treble THEN <<call2>> ELSE << >>)
                                     \o (IF ambient THEN <<call3>> ELSE << >>)]]

----------------------------------------------------------------------------
(* Specification of the wave style *)

Wave == [particleLifetimes |-> particleLifetimes, particleCount |-> particleCount,
         beat |-> beat, elapsedTime |-> elapsedTime, lastTick |-> lastTick,
         exhibitionFrames |-> exhibitionFrames]

frameCount == 3

\* createExhibitionFrames: frame i (0-based) is a BoxGeometry(80 - 15 i, 40 - 7 i, 2)
\* at z = -50 + 30 i and y = 15; a new mesh has scale 1
createExhibitionFrames ==
    [j \in 1..frameCount |->
        [width |-> (80 - (j - 1) * 15) * Scale, height |-> (40 - (j - 1) * 7) * Scale,
         x |-> 0, y |-> 15 * Scale, z |-> (-50 + (j - 1) * 30) * Scale,
         scale |-> Scale]]

\* mutant: the pool is allocated with one slot too many
WaveConstructed_OneMore ==
    /\ particleSystem = TRUE
    /\ particleLifetimes = [i \in 1..(maxParticles + 1) |-> -1]
    /\ particleCount = 0
    /\ beat = [energyHistory |-> [i \in 1..historyLength |-> 0],
               lastBeatTime |-> 0, bassEnergy |-> 0, trebleEnergy |-> 0,
               bassBeat |-> 0, trebleBeat |-> 0, emitCooldown |-> 0]
    /\ elapsedTime = 0
    /\ frame = 0
    /\ lastTick = [ran |-> FALSE, fired |-> FALSE, sample |-> 0, since |-> 0,
                   primary |-> FALSE, sincePrimary |-> -1, gap |-> -1,
                   emitted |-> << >>]
    /\ exhibitionFrames = createExhibitionFrames

\* the state createWaveVisualizer leaves
WaveConstructed ==
    /\ particleSystem = TRUE
    /\ particleLifetimes = [i \in 1..maxParticles |-> -1]
    /\ particleCount = 0
    /\ beat = [energyHistory |-> [i \in 1..historyLength |-> 0],
               lastBeatTime |-> 0, bassEnergy |-> 0, trebleEnergy |-> 0,
               bassBeat |-> 0, trebleBeat |-> 0, emitCooldown |-> 0]
    /\ elapsedTime = 0
    /\ frame = 0
    /\ lastTick = [ran |-> FALSE, fired |-> FALSE, sample |-> 0, since |-> 0,
                   primary |-> FALSE, sincePrimary |-> -1, gap |-> -1,
                   emitted |-> << >>]
    /\ exhibitionFrames = createExhibitionFrames

WaveInit ==
    /\ StyleInit
    /\ WaveConstructed
    /\ particle = EmptySlot
    /\ tower = NoTower
    /\ cameraPosition = BasicPose
    /\ auth = LoggedIn
    /\ player = NewPlayer
    /\ towerColumn = NoColumn

\* one animation frame of the wave style
WaveTick ==
    /\ particleSystem
    /\ frame < MaxFrames
    /\ frame' = frame + 1
    /\ \E data \in WaveSpectra, delta \in WaveDeltas,
          trebleRoll \in BOOLEAN, ambientRoll \in BOOLEAN :
         /\ \E w \in {updateWaveVisualizer(Wave, data, delta,
                                            trebleRoll, ambientRoll)} :
                /\ particleLifetimes' = w.particleLifetimes
                /\ particleCount' = w.particleCount
                /\ beat' = w.beat
                /\ elapsedTime' = w.elapsedTime
                /\ lastTick' = w.lastTick
                /\ exhibitionFrames' = w.exhibitionFrames
    /\ UNCHANGED particleSystem
    /\ UNCHANGED styleVars
    /\ UNCHANGED <<particle, tower, cameraPosition, auth, player, towerColumn>>

WaveNext == WaveTick

WaveSpec == WaveInit /\ [][WaveNext]_vars

----------------------------------------------------------------------------
(* Claims about the wave style (checked under WaveSpec) *)

\* slots a call of emitParticles activated
Activated(call) == Active(call.after) \ Active(call.before)

EmitCalls == {lastTick.emitted[k] : k \in DOMAIN lastTick.emitted}

\* C6: the number of active particles never exceeds maxParticles, after every
\* emitParticles call of a tick and after the tick, including when several
\* emission triggers fire in the same tick.
C6_ActiveNeverExceedsMax ==
    /\ Cardinality(Active(particleLifetimes)) <= maxParticles
    /\ particleCount <= maxParticles
    /\ \A call \in EmitCalls : Cardinality(Active(call.after)) <= maxParticles

C6_Witness ==
    /\ Len(lastTick.emitted) >= 2
    /\ Cardinality(Active(particleLifetimes)) = maxParticles

\* C7 (as stated): emit(count, bassIntensity, trebleIntensity) activates exactly
\* min(count, number of inactive slots) particles.
C7_EmitActivatesCount ==
    \A call \in EmitCalls :
        Cardinality(Activated(call))
            = Min(call.count, Cardinality(Inactive(call.before)))

\* C7 (amended): emit activates exactly min(floor(count * (1 + bassIntensity)),
\* number of inactive slots) particles, in the lowest-indexed inactive slots, each
\* with the full lifespan, and leaves every other slot as it was.
C7_EmitActivatesBurst ==
    \A call \in EmitCalls :
        /\ Cardinality(Activated(call))
             = Min((call.count * (Scale + call.bass)) \div Scale,
                   Cardinality(Inactive(call.before)))
        /\ \A j \in Activated(call) :
             /\ call.after[j] = particleLifespan
             /\ \A k \in Inactive(call.before) \ Activated(call) : j < k
        /\ \A i \in DOMAIN call.before \ Activated(call) :
             call.after[i] = call.before[i]

\* a call whose burst activated more particles than its count
C7_Witness ==
    \E call \in EmitCalls :
        /\ call.bass > 0
        /\ Cardinality(Activated(call)) > call.count

\* C8 (as stated): after every tick every active particle's remaining lifetime
\* lies in (0, particleLifespan]; a lifetime of exactly 0 is not active.
C8_LifetimeInOpenInterval ==
    \A i \in Active(particleLifetimes) :
        0 < particleLifetimes[i] /\ particleLifetimes[i] <= particleLifespan

\* C8 (amended): after every tick every active particle's remaining lifetime lies
\* in [0, particleLifespan]; a particle whose lifetime is exactly 0 is still
\* counted as active.
C8_LifetimeInClosedInterval ==
    /\ \A i \in DOMAIN particleLifetimes : particleLifetimes[i] <= particleLifespan
    /\ particleCount = Cardinality({i \in DOMAIN particleLifetimes :
                                       particleLifetimes[i] >= 0})

C8_Witness ==
    /\ \E i \in DOMAIN particleLifetimes : particleLifetimes[i] = 0
    /\ \E i \in DOMAIN particleLifetimes : particleLifetimes[i] < 0
    /\ particleCount > 0

\* C9: two bass beat firings are never beatHoldTime or less apart: when a beat
\* fires, lastBeatTime becomes the current time and moves by more than beatHoldTime.
C9_BeatsMoreThanHoldTimeApart ==
    [][(frame' # frame /\ lastTick'.fired)
        => /\ beat'.lastBeatTime = elapsedTime'
           /\ beat'.lastBeatTime - beat.lastBeatTime > beatHoldTime]_vars

\* a second firing, and a tick that came exactly beatHoldTime after a firing
C9_Witness ==
    /\ lastTick.fired
    /\ lastTick.since < elapsedTime

\* C10: on every tick the bass beat fires exactly when the raw bass energy (the
\* last sample of energyHistory) exceeds 1.5 times the mean of energyHistory and
\* more than beatHoldTime has passed since lastBeatTime; on firing lastBeatTime
\* becomes now and bassBeat becomes min(2 * bassEnergy, 1); on every other tick
\* bassBeat does not increase and lastBeatTime stays.
C10_BassBeatRule ==
    [][frame' # frame =>
        LET history == beat'.energyHistory
            raw == history[Len(history)]
            due == /\ 2 * raw * Len(history) > 3 * SumFromTo(history, 1, Len(history))
                   /\ elapsedTime' - beat.lastBeatTime > beatHoldTime
        IN  /\ lastTick'.fired <=> due
            /\ due => /\ beat'.lastBeatTime = elapsedTime'
                      /\ beat'.bassBeat = Min(2 * raw, Scale)
            /\ ~due => /\ beat'.lastBeatTime = beat.lastBeatTime
                       /\ beat'.bassBeat <= beat.bassBeat]_vars

\* a full-scale bass spike over a history averaging 0.1 fired with intensity 1.0
C10_Witness ==
    LET history == beat.energyHistory
        others == SumFromTo(history, 1, Len(history) - 1)
    IN  /\ lastTick.fired
        /\ history[Len(history)] = Scale
        /\ 10 * others = (Len(history) - 1) * Scale
        /\ beat.bassBeat = Scale
        /\ beat.lastBeatTime = elapsedTime

\* C11: after every tick energyHistory holds at most 30 samples; a tick appends
\* its bass-energy sample at the end and, when the history was full, evicts the
\* oldest sample, so the history is the last samples in arrival order.
C11_HistoryIsFifo ==
    [][frame' # frame =>
        LET old == beat.energyHistory
            new == beat'.energyHistory
        IN  /\ Len(new) <= historyLength
            /\ new[Len(new)] = lastTick'.sample
            /\ IF Len(old) < historyLength
               THEN SubSeq(new, 1, Len(new) - 1) = old
               ELSE SubSeq(new, 1, Len(new) - 1) = Tail(old)]_vars

\* two different non-zero samples, in arrival order, after an eviction
C11_Witness ==
    LET history == beat.energyHistory
    IN  /\ frame >= 2
        /\ Len(history) = historyLength
        /\ history[Len(history)] = lastTick.sample
        /\ history[Len(history)] = Scale
        /\ history[Len(history) - 1] \notin {0, Scale}

\* C12: after any sequence of ticks with byte-valued spectra, bassBeat, trebleBeat
\* and the smoothed bassEnergy and trebleEnergy all stay within [0, 1].
C12_BeatValuesInUnitInterval ==
    /\ 0 <= beat.bassBeat /\ beat.bassBeat <= Scale
    /\ 0 <= beat.trebleBeat /\ beat.trebleBeat <= Scale
    /\ 0 <= beat.bassEnergy /\ beat.bassEnergy <= Scale
    /\ 0 <= beat.trebleEnergy /\ beat.trebleEnergy <= Scale

\* a full-scale spectrum fired both beats: twice the bass sample exceeds 1.0 and
\* the intensities sit at the clamp
C12_Witness ==
    /\ lastTick.fired
    /\ 2 * lastTick.sample > Scale
    /\ beat.bassBeat = Scale
    /\ beat.trebleBeat = Scale
    /\ beat.bassEnergy > 0
    /\ beat.trebleEnergy > 0

\* C17: a primary burst is emitted on exactly those ticks where bassBeat > 0.4
\* and the emit cooldown has elapsed; each primary burst resets the cooldown to
\* 0.1 s, and two primary bursts are never separated by less than 0.1 s of
\* accumulated tick time.
C17_PrimaryBurstCooldown ==
    [][frame' # frame =>
        LET delta == elapsedTime' - elapsedTime
            cooled == IF beat.emitCooldown > 0 THEN beat.emitCooldown - delta
                      ELSE beat.emitCooldown
        IN  /\ lastTick'.primary <=> (beat'.bassBeat > bassBeatLevel /\ cooled <= 0)
            /\ lastTick'.primary =>
                  /\ beat'.emitCooldown = emitCooldownReset
                  /\ lastTick'.emitted # << >>
                  /\ lastTick.sincePrimary >= 0
                       => lastTick.sincePrimary + delta >= emitCooldownReset
            /\ ~lastTick'.primary => beat'.emitCooldown = cooled]_vars

\* a primary burst exactly 0.1 s of tick time after the previous one: the tick in
\* between was held back by the cooldown
C17_Witness ==
    /\ lastTick.primary
    /\ lastTick.gap = emitCooldownReset
    /\ beat.bassBeat > bassBeatLevel

----------------------------------------------------------------------------
(* The particle pass of updateWaveVisualizer on one slot of the pool.       *)
(* Positions, velocities and sizes are in thousandths (Scale = 1.0).        *)

fadeInTenths == 9        \* fadeIn: lifeFactor < 0.9, lifeFactor / 0.9
fadeOutTenths == 2         \* fadeOut: lifeFactor < 0.2, lifeFactor / 0.2

\* frame times of the particle pass: 0.15 s and 1.2 s
ParticleDeltas == {3, 24}

\* bassIntensity of the emitting call; both select pattern 0 (circular burst)
ParticleBass == {0, Scale}

\* (cos(angle) cos(elevation), sin(elevation), sin(angle) cos(elevation)) of the
\* circular burst, for (angle, elevation) = (90, 30), (90, 0), (270, 0), (0, 0) degrees
CircularBurst ==
    {[x |-> 0, y |-> 500, z |-> 866], [x |-> 0, y |-> 0, z |-> 1000],
     [x |-> 0, y |-> 0, z |-> -1000], [x |-> 1000, y |-> 0, z |-> 0]}

\* outcomes of the Math.random() of randomSize
SizeRolls == {0, 500}

\* a * b / c in floating point, here rounded toward zero
MulDiv(a, b, c) == IF a * b >= 0 THEN (a * b) \div c ELSE -((-(a * b)) \div c)

ScaleVec(v, factor, unit) ==
    [x |-> MulDiv(v.x, factor, unit), y |-> MulDiv(v.y, factor, unit),
     z |-> MulDiv(v.z, factor, unit)]

\* the bounds the collision test computes from frame.position and
\* frame.geometry.parameters
frameBounds(f) ==
    [minX |-> f.x - f.width \div 2, maxX |-> f.x + f.width \div 2,
     minY |-> f.y - f.height \div 2, maxY |-> f.y + f.height \div 2, z |-> f.z]

\* the x/y test of the collision
InsideFrame(pos, b) ==
    pos.x >= b.minX /\ pos.x <= b.maxX /\ pos.y >= b.minY /\ pos.y <= b.maxY

\* oldZ < frameBounds.z && positions.array[i * 3 + 2] >= frameBounds.z
PassesThrough(oldZ, newZ, z) == oldZ < z /\ newZ >= z

RECURSIVE CollideFrames(_, _, _, _)
\* the loop over exhibitionFrames, from frame j on
CollideFrames(q, oldZ, pos, j) ==
    IF j > Len(exhibitionFrames) THEN q
    ELSE LET b == frameBounds(exhibitionFrames[j])
             hit == PassesThrough(oldZ, pos.z, b.z) /\ InsideFrame(pos, b)
         IN  CollideFrames(IF hit
                           THEN [q EXCEPT !.velocity = ScaleVec(@, 8, 10),
                                          !.frameInteractions = @ + 1]
                           ELSE q,
                           oldZ, pos, j + 1)

\* velocity.y -= 0.5 * delta; velocity.multiplyScalar(0.995)
Drag(v, delta) ==
    ScaleVec([v EXCEPT !.y = @ - (Scale * delta) \div (2 * UnitsPerSecond)], 995, 1000)

\* mutant: the size ignores the frame interactions
sizeFactor_Flat(frameInteractions) == Scale

\* sizeFactor: 1.0 + frameInteractions * 0.1 when frameInteractions > 0
sizeFactor(frameInteractions) ==
    IF frameInteractions > 0 THEN Scale + (frameInteractions * Scale) \div 10 ELSE Scale

\* lifeFactor < 0.9 ? lifeFactor / 0.9 : 1.0, with lifeFactor = lifetime / particleLifespan
fadeIn(lifetime) ==
    IF 10 * lifetime < fadeInTenths * particleLifespan
    THEN (10 * lifetime * Scale) \div (fadeInTenths * particleLifespan)
    ELSE Scale

\* lifeFactor < 0.2 ? lifeFactor / 0.2 : 1.0
fadeOut(lifetime) ==
    IF 10 * lifetime < fadeOutTenths * particleLifespan
    THEN (10 * lifetime * Scale) \div (fadeOutTenths * particleLifespan)
    ELSE Scale

Deactivate_Moved(p, delta) ==
    [p EXCEPT !.lifetime = @ - delta, !.size = 0,
              !.position.z = @ + MulDiv(p.velocity.z, delta, UnitsPerSecond),
              !.prev = [position |-> p.position, velocity |-> p.velocity,
                        frameInteractions |-> p.frameInteractions]]

\* the particle died this frame: particleLifetimes[i] -= delta; sizes.array[i] = 0;
\* continue
Deactivate(p, delta) ==
    [p EXCEPT !.lifetime = @ - delta, !.size = 0,
              !.prev = [position |-> p.position, velocity |-> p.velocity,
                        frameInteractions |-> p.frameInteractions]]

\* the body of the loop over the pool for one slot; prev is the slot as the
\* pass found it (observation)
integrateParticle(p, delta) ==
    IF p.lifetime < 0 THEN p
    ELSE IF p.lifetime - delta < 0
    THEN Deactivate(p, delta)
    ELSE LET lifetime == p.lifetime - delta
             moved == [x |-> p.position.x + MulDiv(p.velocity.x, delta, UnitsPerSecond),
                       y |-> p.position.y + MulDiv(p.velocity.y, delta, UnitsPerSecond),
                       z |-> p.position.z + MulDiv(p.velocity.z, delta, UnitsPerSecond)]
             hit == CollideFrames(p, p.position.z, moved, 1)
         IN  [lifetime |-> lifetime,
              position |-> moved,
              velocity |-> Drag(hit.velocity, delta),
              initialSize |-> p.initialSize,
              frameInteractions |-> hit.frameInteractions,
              size |-> (((((p.initialSize * sizeFactor(hit.frameInteractions)) \div Scale)
                            * fadeIn(lifetime)) \div Scale) * fadeOut(lifetime)) \div Scale,
              prev |-> [position |-> p.position, velocity |-> p.velocity,
                        frameInteractions |-> p.frameInteractions]]

\* what emitParticles writes into the slot it activates
emitParticle(bassIntensity, direction, sizeRoll) ==
    LET baseSpeed == 15 * Scale + 25 * bassIntensity
        baseSize == (3 * Scale) \div 2 + (5 * bassIntensity) \div 2
        randomSize == (baseSize * (800 + (sizeRoll * 4) \div 10)) \div 1000
    IN  [lifetime |-> particleLifespan,
         position |-> [x |-> 0, y |-> 0, z |-> 0],
         velocity |-> ScaleVec(direction, baseSpeed, Scale),
         initialSize |-> randomSize,
         frameInteractions |-> 0,
         size |-> randomSize,
         prev |-> [position |-> [x |-> 0, y |-> 0, z |-> 0],
                   velocity |-> ScaleVec(direction, baseSpeed, Scale),
                   frameInteractions |-> 0]]

ParticleInit ==
    /\ StyleInit
    /\ WaveConstructed
    /\ particle = EmptySlot
    /\ tower = NoTower
    /\ cameraPosition = BasicPose
    /\ auth = LoggedIn
    /\ player = NewPlayer
    /\ towerColumn = NoColumn

\* a tick in which emitParticles activates the slot: the particle pass of the
\* same tick integrates it (the tick may come with a zero delta)
ParticleEmitTick ==
    /\ particle.lifetime < 0
    /\ \E bassIntensity \in ParticleBass, direction \in CircularBurst,
          sizeRoll \in SizeRolls, delta \in ParticleDeltas \cup {0} :
         particle' = integrateParticle(emitParticle(bassIntensity, direction, sizeRoll),
                                       delta)
    /\ UNCHANGED <<styleVars, waveVars, tower, cameraPosition, auth, player,
                 towerColumn>>

\* a tick that finds the slot active
ParticleTick ==
    /\ particle.lifetime >= 0
    /\ \E delta \in ParticleDeltas : particle' = integrateParticle(particle, delta)
    /\ UNCHANGED <<styleVars, waveVars, tower, cameraPosition, auth, player,
                 towerColumn>>

ParticleNext == ParticleEmitTick \/ ParticleTick

ParticleSpec == ParticleInit /\ [][ParticleNext]_vars

\* every tick of the host loop eventually comes
ParticleFairSpec == ParticleSpec /\ WF_vars(ParticleNext)

----------------------------------------------------------------------------
(* Claims about the particle pass (checked under ParticleSpec) *)

ParticleActive == particle.lifetime >= 0

\* the size of the particle without the life envelope
FullSize ==
    (particle.initialSize * (10 + particle.frameInteractions)) \div 10

\* C13: for an active particle the rendered size is 0 when remainingLifetime =
\* particleLifespan (lifeFraction 1.0), has risen to the full size at lifeFraction
\* 0.9, never exceeds the full size, and is 0 again at lifeFraction 0.
C13_SizeRisesFromZero ==
    ParticleActive =>
        /\ particle.lifetime = particleLifespan => particle.size = 0
        /\ 10 * particle.lifetime = 9 * particleLifespan => particle.size = FullSize
        /\ particle.size <= FullSize
        /\ particle.lifetime = 0 => particle.size = 0

\* C14: after each tick every active particle's size equals initialSize *
\* (1 + 0.1 * frameInteractions) * min(lifeFraction / 0.9, 1) *
\* min(lifeFraction / 0.2, 1), lifeFraction being lifetime / particleLifespan
\* after this tick's decrement.
C14_SizeFormula ==
    ParticleActive =>
        particle.size
          = (((FullSize
                * Min((10 * particle.lifetime * Scale) \div (9 * particleLifespan), Scale))
               \div Scale)
              * Min((10 * particle.lifetime * Scale) \div (2 * particleLifespan), Scale))
             \div Scale

\* a particle that passed a frame, in the last fifth of its life, still visible
C14_Witness ==
    /\ ParticleActive
    /\ particle.frameInteractions >= 1
    /\ 10 * particle.lifetime < 2 * particleLifespan
    /\ particle.size > 0
    /\ particle.size < particle.initialSize

\* frames whose z-plane the last pass moved the particle across, in either
\* direction, with the new x/y inside the frame's rectangle
FramesCrossed ==
    {j \in DOMAIN exhibitionFrames :
        LET b == frameBounds(exhibitionFrames[j])
            oldZ == particle.prev.position.z
            newZ == particle.position.z
        IN  /\ \/ (oldZ < b.z /\ newZ >= b.z)
               \/ (oldZ > b.z /\ newZ <= b.z)
            /\ InsideFrame(particle.position, b)}

RECURSIVE Damped(_, _)
\* v scaled by 0.8, k times
Damped(v, k) == IF k = 0 THEN v ELSE Damped(ScaleVec(v, 8, 10), k - 1)

\* C15: for every active particle and every frame, if the tick moved the particle
\* across the frame's z-plane, in either direction, with its new x/y inside the
\* frame's rectangle, its frameInteractions increased by exactly 1 and its velocity
\* was scaled by 0.8 for that frame; a frame not crossed changes neither.
C15_CrossingEitherDirection ==
    ParticleActive =>
        /\ particle.frameInteractions
             = particle.prev.frameInteractions + Cardinality(FramesCrossed)
        /\ \E delta \in ParticleDeltas \cup {0} :
             particle.velocity
               = Drag(Damped(particle.prev.velocity, Cardinality(FramesCrossed)), delta)

\* C16: a particle emitted at the origin eventually registers interactions with
\* two different frames (frameInteractions reaches 2) in some execution; stated
\* for the executions of the fair host loop.
C16_TwoFramesReached == <>(particle.frameInteractions >= 2)

\* C16, what the code does instead: no particle ever registers a second frame
C16_NeverTwoInteractions == particle.frameInteractions <= 1

\* C27: on the tick in which a particle's lifetime drops below zero it is
\* deactivated with size 0 and its position and velocity (and its interaction
\* count, which changes together with its colour) are as they were before that
\* tick; the particle pass changes nothing of a slot it finds inactive.
C27_DeathKeepsPositionAndVelocity ==
    ~ParticleActive =>
        /\ particle.size = 0
        /\ particle.position = particle.prev.position
        /\ particle.velocity = particle.prev.velocity
        /\ particle.frameInteractions = particle.prev.frameInteractions
        /\ \A delta \in ParticleDeltas : integrateParticle(particle, delta) = particle

\* a particle that had moved away from the emitter has died
C27_Witness ==
    /\ ~ParticleActive
    /\ particle.size = 0
    /\ particle.position.z # 0
    /\ particle.velocity.z # 0
    /\ particle.position = particle.prev.position

----------------------------------------------------------------------------
(* Claims about the obstacle frames (checked under WaveSpec) *)

\* C29: once the wave style is constructed there are exactly 3 obstacle frames,
\* and no tick changes a frame's position, width or height: the collision
\* bounds of every tick are those fixed at construction.
C29_FramesFixedAtConstruction ==
    particleSystem =>
        /\ Len(exhibitionFrames) = 3
        /\ \A j \in DOMAIN exhibitionFrames :
             /\ exhibitionFrames[j].x = createExhibitionFrames[j].x
             /\ exhibitionFrames[j].y = createExhibitionFrames[j].y
             /\ exhibitionFrames[j].z = createExhibitionFrames[j].z
             /\ exhibitionFrames[j].width = createExhibitionFrames[j].width
             /\ exhibitionFrames[j].height = createExhibitionFrames[j].height
             /\ frameBounds(exhibitionFrames[j]) = frameBounds(createExhibitionFrames[j])

\* a tick with a bass beat has pulsed the scale of the three frame meshes
C29_Witness ==
    /\ lastTick.ran
    /\ Len(exhibitionFrames) = 3
    /\ \A j \in DOMAIN exhibitionFrames : exhibitionFrames[j].scale > Scale

----------------------------------------------------------------------------
(* The treadmill of the Towers style on one tower of the grid (TowersSpec).   *)
(* Positions and scales are in thousandths (Scale = 1.0).                     *)

MaxTowerTicks == 5       \* animation frames of the Towers style that are explored

planeSize == 150
viewDistance == 75
maxScale == 50
treadmillPerSecond == 10

\* towerGridSettings.spacing = planeSize / 20
spacing == (planeSize * Scale) \div gridSize

\* towerGridSettings.wrapDistanceZ = viewDistance
wrapDistanceZ == viewDistance * Scale

\* frame times of the Towers ticks: 0.5 s, 1 s and a resumed tick of 5 s
TowerDeltas == {10, 20, 100}

\* rows of the grid: for (let z = 0; z < gs.gridSize * 2; z++)
Rows == 0..(2 * gridSize - 1)

\* the tower createTowersVisualizer places in a row:
\* position.z = (z - gridSize + 0.5) * spacing, scale 1
createTower(row) ==
    [z |-> ((2 * row - 2 * gridSize + 1) * spacing) \div 2,
     scaleY |-> Scale,
     ticks |-> 0,
     prev |-> [ticked |-> FALSE, z |-> 0, scaleY |-> 0, value |-> 0, delta |-> 0]]

\* treadmillSpeed = 10.0 * delta
treadmillSpeed(delta) == (treadmillPerSecond * Scale * delta) \div UnitsPerSecond

PastWrapBound_FullDistance(z) == z > wrapDistanceZ

\* tower.position.z > gs.wrapDistanceZ / 2
PastWrapBound(z) == z > wrapDistanceZ \div 2

\* the body of towers.forEach for one tower; value is dataArray[freqIndex] / 255
\* and prev is the tower as the tick found it, with the tick's inputs, and ticks
\* the number of frames so far (observations)
updateTower(t, value, delta) ==
    LET moved == t.z + treadmillSpeed(delta)
        wrapped == PastWrapBound(moved)
        z == IF wrapped THEN moved - gridSize * spacing ELSE moved
        scale0 == IF wrapped THEN Scale ELSE t.scaleY
        targetScaleY == Scale + value * maxScale
    IN  [z |-> z,
         scaleY |-> scale0 + Tenth(targetScaleY - scale0),
         ticks |-> t.ticks + 1,
         prev |-> [ticked |-> TRUE, z |-> t.z, scaleY |-> t.scaleY,
                   value |-> value, delta |-> delta]]

forwardPerSecond == 5
cameraFarZ == -50
cameraResetZ == 30
towersPoseZ == 10

\* this.camera.position.set(0, 2, 10) of the 'towers' case of createVisualizer
TowersPose == [z |-> towersPoseZ * Scale, prev |-> [ticked |-> FALSE, z |-> 0, delta |-> 0]]

\* forwardSpeed = 5.0 * delta
forwardSpeed(delta) == (forwardPerSecond * Scale * delta) \div UnitsPerSecond

TooFarBack_Never(z) == FALSE

\* this.camera.position.z < -50
TooFarBack(z) == z < cameraFarZ * Scale

\* the camera movement at the end of updateTowersVisualizer; prev is the position
\* the tick found, with the tick's delta (observation)
moveTowersCamera(c, delta) ==
    LET moved == c.z - forwardSpeed(delta)
    IN  [z |-> IF TooFarBack(moved) THEN cameraResetZ * Scale ELSE moved,
         prev |-> [ticked |-> TRUE, z |-> c.z, delta |-> delta]]

TowersInit ==
    /\ StyleInit
    /\ WaveAbsent
    /\ particle = EmptySlot
    /\ \E row \in Rows : tower = createTower(row)
    /\ cameraPosition = TowersPose
    /\ auth = LoggedIn
    /\ player = NewPlayer
    /\ towerColumn = NoColumn

\* one animation frame of the Towers style
TowersTick ==
    /\ tower.ticks < MaxTowerTicks
    /\ \E byte \in ByteLevels, delta \in TowerDeltas :
          /\ tower' = updateTower(tower, Norm(byte), delta)
          /\ cameraPosition' = moveTowersCamera(cameraPosition, delta)
    /\ UNCHANGED <<styleVars, waveVars, particle, auth, player, towerColumn>>

TowersNext == TowersTick

TowersSpec == TowersInit /\ [][TowersNext]_vars

----------------------------------------------------------------------------
(* Claims about the treadmill (checked under TowersSpec) *)

\* where the last tick carried the tower before the wrap test
MovedTo == tower.prev.z + (10 * Scale * tower.prev.delta) \div UnitsPerSecond

CameraMovedTo ==
    cameraPosition.prev.z - (5 * Scale * cameraPosition.prev.delta) \div UnitsPerSecond

\* C31: in the Towers style the camera's z position lies in [-50, 30] after
\* every tick: the tick moves it by -5 * delta and puts it at 30 when that took
\* it below -50.
C31_TowersCameraInRange ==
    cameraPosition.prev.ticked =>
        /\ cameraPosition.z >= -50 * Scale
        /\ cameraPosition.z <= 30 * Scale
        /\ CameraMovedTo < -50 * Scale => cameraPosition.z = 30 * Scale
        /\ CameraMovedTo >= -50 * Scale => cameraPosition.z = CameraMovedTo

\* a tick took the camera below -50 and it was put back at 30
C31_Witness ==
    /\ cameraPosition.prev.ticked
    /\ cameraPosition.prev.z >= -50 * Scale
    /\ CameraMovedTo < -50 * Scale
    /\ cameraPosition.z = 30 * Scale

----------------------------------------------------------------------------
(* The page: the login form of auth.js, the users and the current user kept  *)
(* in localStorage, and the Visualizer instances the 'userLoggedIn' listener *)
(* of index.html constructs (AuthSpec).                                       *)

MaxVisualizers == 2      \* Visualizer instances constructed since the page load

\* localStorage.getItem(CURRENT_USER_KEY) when nothing is stored
NullUser == "null"

\* trimmed values of the two form fields
Usernames == {"", "al", "alice", "constructor"}
Passwords == {"", "12345", "secret1", "secret2"}

\* property names every object parsed by JSON.parse inherits
PrototypeNames == {"constructor"}

\* what the last event of the page was, with the submitted values and the mode
\* of the form at that moment (observation)
Event(kind, username, password, mode, success) ==
    [kind |-> kind, username |-> username, password |-> password, isLogin |-> mode,
     success |-> success]

\* the document as it is loaded: the modal is visible, the form is in login
\* mode, no Visualizer exists; localStorage keeps the users and the current user
FreshPage(users, currentUser) ==
    [users |-> users, currentUser |-> currentUser,
     isLogin |-> TRUE, authTitle |-> "Login", authSubmit |-> "Login",
     modalHidden |-> FALSE, mainAppShown |-> FALSE,
     visualizers |-> 0, canvases |-> 0, loops |-> 0,
     last |-> Event("load", "", "", TRUE, FALSE)]

switchMode(a) ==
    IF ~a.isLogin
    THEN [a EXCEPT !.isLogin = TRUE, !.authTitle = "Login", !.authSubmit = "Login"]
    ELSE [a EXCEPT !.isLogin = FALSE, !.authTitle = "Register",
                   !.authSubmit = "Register"]

validateInput(username, password) ==
    /\ username # "" /\ password # ""
    /\ Len(username) >= 3
    /\ Len(password) >= 6

\* users[username] is truthy
HasEntry(users, username) ==
    username \in DOMAIN users \/ username \in PrototypeNames

handleLogin_AnyPassword(a, username, password) ==
    IF username \in DOMAIN a.users
    THEN [a |-> [a EXCEPT !.currentUser = username], success |-> TRUE]
    ELSE [a |-> a, success |-> FALSE]

handleLogin(a, username, password) ==
    IF ~HasEntry(a.users, username) THEN [a |-> a, success |-> FALSE]
    ELSE IF username \notin DOMAIN a.users \/ a.users[username] # password
    THEN [a |-> a, success |-> FALSE]
    ELSE [a |-> [a EXCEPT !.currentUser = username], success |-> TRUE]

handleRegister(a, username, password) ==
    IF HasEntry(a.users, username) THEN [a |-> a, success |-> FALSE]
    ELSE [a |-> [a EXCEPT !.users = [u \in DOMAIN a.users \cup {username} |->
                                        IF u = username THEN password ELSE a.users[u]],
                          !.currentUser = username],
          success |-> TRUE]

showMainApp(a) == [a EXCEPT !.modalHidden = TRUE, !.mainAppShown = TRUE]

\* the 'userLoggedIn' listener: new Visualizer(), whose constructor appends the
\* renderer's canvas to #canvas-container and starts animate()
userLoggedIn(a) ==
    [a EXCEPT !.visualizers = @ + 1, !.canvases = @ + 1, !.loops = @ + 1]

checkLoggedIn(a) ==
    IF a.currentUser # NullUser THEN userLoggedIn(showMainApp(a)) ELSE a

\* the 'submit' listener of the form
submit(a, username, password) ==
    IF ~validateInput(username, password)
    THEN [a EXCEPT !.last = Event("submit", username, password, a.isLogin, FALSE)]
    ELSE LET handled == IF a.isLogin THEN handleLogin(a, username, password)
                        ELSE handleRegister(a, username, password)
             done == IF ~handled.success THEN handled.a
                     ELSE IF a.isLogin THEN userLoggedIn(showMainApp(handled.a))
                     ELSE switchMode(handled.a)
         IN  [done EXCEPT !.last = Event("submit", username, password, a.isLogin,
                                         handled.success)]

\* window.logout
logout(a) ==
    [switchMode([a EXCEPT !.currentUser = NullUser, !.mainAppShown = FALSE,
                          !.modalHidden = FALSE])
        EXCEPT !.last = Event("logout", "", "", a.isLogin, FALSE)]

AuthInit ==
    /\ StyleInit /\ WaveAbsent /\ particle = EmptySlot /\ tower = NoTower
    /\ cameraPosition = BasicPose
    /\ player = NewPlayer
    /\ towerColumn = NoColumn
    /\ auth = checkLoggedIn(FreshPage(<< >>, NullUser))

\* the page is loaded again: DOMContentLoaded runs checkLoggedIn
PageLoad ==
    /\ auth' = checkLoggedIn(FreshPage(auth.users, auth.currentUser))
    /\ UNCHANGED <<styleVars, waveVars, particle, tower, cameraPosition, player,
                 towerColumn>>

\* click on the toggle of the form
ToggleClick ==
    /\ ~auth.modalHidden
    /\ auth' = [switchMode(auth) EXCEPT
                    !.last = Event("toggle", "", "", auth.isLogin, FALSE)]
    /\ UNCHANGED <<styleVars, waveVars, particle, tower, cameraPosition, player,
                 towerColumn>>

SubmitForm ==
    /\ ~auth.modalHidden
    /\ auth.visualizers < MaxVisualizers
    /\ \E username \in Usernames, password \in Passwords :
          auth' = submit(auth, username, password)
    /\ UNCHANGED <<styleVars, waveVars, particle, tower, cameraPosition, player,
                 towerColumn>>

\* click on the logout button of the main application
LogoutClick ==
    /\ auth.mainAppShown
    /\ auth' = logout(auth)
    /\ UNCHANGED <<styleVars, waveVars, particle, tower, cameraPosition, player,
                 towerColumn>>

AuthNext == PageLoad \/ ToggleClick \/ SubmitForm \/ LogoutClick

AuthSpec == AuthInit /\ [][AuthNext]_vars

----------------------------------------------------------------------------
(* Claims about the page (checked under AuthSpec) *)

\* C34: after any sequence of page load, login, logout and login at most one
\* Visualizer instance exists: at most one renderer canvas is attached and at
\* most one animation loop is scheduled.
C34_AtMostOneVisualizer ==
    auth.visualizers <= 1 /\ auth.canvases <= 1 /\ auth.loops <= 1

\* C37: a current user is recorded only by a successful login: after a
\* successful registration, before any login, no current user is stored.
C37_RegistrationStoresNoSession ==
    (auth.last.kind = "submit" /\ ~auth.last.isLogin /\ auth.last.success)
        => auth.currentUser = NullUser

\* C38: after logout the form is in login mode (isLogin, title and submit
\* button read Login) and no current user is stored.
C38_LogoutResetsToLoginMode ==
    auth.last.kind = "logout" =>
        /\ auth.isLogin
        /\ auth.authTitle = "Login"
        /\ auth.authSubmit = "Login"
        /\ auth.currentUser = NullUser

\* the submission the step made is one the claim calls rejected: invalid input,
\* login with an unknown user or a wrong password, registration of a taken name
RejectedSubmission ==
    /\ auth'.last.kind = "submit"
    /\ auth'.last.isLogin = auth.isLogin
    /\ LET username == auth'.last.username
           password == auth'.last.password
       IN  \/ username = "" \/ password = ""
           \/ Len(username) < 3 \/ Len(password) < 6
           \/ /\ auth.isLogin
              /\ username \notin DOMAIN auth.users
           \/ /\ auth.isLogin
              /\ username \in DOMAIN auth.users
              /\ auth.users[username] # password
           \/ /\ ~auth.isLogin
              /\ username \in DOMAIN auth.users

\* C39: a rejected submission leaves the stored users and the stored current
\* user unchanged and starts no visualizer.
C39_RejectedSubmissionChangesNothing ==
    [][RejectedSubmission =>
          /\ auth'.users = auth.users
          /\ auth'.currentUser = auth.currentUser
          /\ auth'.visualizers = auth.visualizers
          /\ ~auth'.last.success]_vars

\* a login with the wrong password of a registered user has been rejected
C39_Witness ==
    /\ auth.last.kind = "submit"
    /\ auth.last.isLogin
    /\ ~auth.last.success
    /\ auth.last.username \in DOMAIN auth.users
    /\ auth.users[auth.last.username] # auth.last.password
    /\ Len(auth.last.password) >= 6
    /\ auth.visualizers = 0

----------------------------------------------------------------------------
(* The audio player of the Visualizer: the playlist, the decoded buffer, the *)
(* AudioBufferSourceNode held in this.source, and the file loads in flight   *)
(* (PlayerSpec).  A file is named by a number; audioBuffer = 0 is undefined. *)
(* player.source is the state of the node this.source refers to; orphans     *)
(* counts the nodes that were started, were never stopped and have not       *)
(* played to their end, and that this.source no longer refers to.            *)

MaxPending == 2          \* file loads in flight at one time
MaxOrphans == 2          \* playing nodes no longer referenced

maxTracks == 5

\* the file lists the file dialog can hand to the 'change' listener
Selections == {<< >>, <<1>>, <<1, 2>>, <<2, 1, 3>>, <<1, 2, 3, 4, 5, 6>>}

\* Array.prototype.slice(0, n)
slice(files, n) == SubSeq(files, 1, IF Len(files) < n THEN Len(files) ELSE n)

RemoveAt(seq, i) == SubSeq(seq, 1, i - 1) \o SubSeq(seq, i + 1, Len(seq))

initAudioContext(p) == [p EXCEPT !.audioContext = TRUE]

\* this.source = createBufferSource(): the node referred to before keeps playing
\* if it was started and never stopped
NewSource(p, state) ==
    [p EXCEPT !.orphans = @ + (IF p.source = "started" THEN 1 ELSE 0),
              !.source = state]

\* AudioScheduledSourceNode.stop() throws InvalidStateError on a node that
\* was never started
StopThrows(p) == p.source = "created"

\* this.source.stop() on a node that was started
stop(p) == [p EXCEPT !.source = IF @ = "started" THEN "stopped" ELSE @]

\* the FileReader and decodeAudioData are started; wasPlaying is captured
StartsLoad(p, file) ==
    [p EXCEPT !.loads = Append(@, [file |-> file, wasPlaying |-> p.isPlaying])]

loadAudioFile(p, file) ==
    IF ~p.audioContext THEN p
    ELSE IF p.isPlaying /\ p.source # "undefined"
    THEN IF StopThrows(p) THEN p
         ELSE [StartsLoad(p, file) EXCEPT !.source = stop(p).source,
                                          !.isPlaying = FALSE]
    ELSE StartsLoad(p, file)

\* the callback of decodeAudioData
Decoded(p, load) ==
    [NewSource(p, IF load.wasPlaying THEN "started" ELSE "created")
        EXCEPT !.audioBuffer = load.file,
               !.isPlaying = IF load.wasPlaying THEN TRUE ELSE @]

playNextTrack(p) ==
    IF Len(p.audioFiles) > 0
    THEN LET index == (p.currentTrackIndex + 1) % Len(p.audioFiles)
         IN  loadAudioFile([p EXCEPT !.currentTrackIndex = index],
                           p.audioFiles[index + 1])
    ELSE p

playPreviousTrack(p) ==
    IF Len(p.audioFiles) > 0
    THEN LET index == (p.currentTrackIndex - 1 + Len(p.audioFiles))
                          % Len(p.audioFiles)
         IN  loadAudioFile([p EXCEPT !.currentTrackIndex = index],
                           p.audioFiles[index + 1])
    ELSE p

\* the 'change' listener of the file input
filesChanged(p, files) ==
    LET chosen == IF Len(files) > maxTracks THEN slice(files, maxTracks) ELSE files
        q == [initAudioContext(p) EXCEPT !.audioFiles = chosen]
    IN  IF Len(chosen) > 0
        THEN loadAudioFile([q EXCEPT !.currentTrackIndex = 0], chosen[1])
        ELSE q

\* the 'click' listener of the play/pause button
playPauseClicked(p) ==
    LET q == initAudioContext(p)
    IN  IF q.audioBuffer = 0 THEN q
        ELSE IF q.isPlaying
        THEN IF StopThrows(q) THEN q
             ELSE [stop(q) EXCEPT !.isPlaying = FALSE]
        ELSE [NewSource(q, "started") EXCEPT !.isPlaying = TRUE]

\* the 'click' listener of an item of the track list
trackClicked(p, index) ==
    IF index # p.currentTrackIndex
    THEN loadAudioFile([p EXCEPT !.currentTrackIndex = index], p.audioFiles[index + 1])
    ELSE p

\* updateProgress finds the play time at or past the duration of the buffer; a
\* started node has played its buffer to the end by then
updateProgressAtEnd(p) ==
    playNextTrack([p EXCEPT !.source = IF @ = "started" THEN "ended" ELSE @])

PlayerInit ==
    /\ StyleInit /\ WaveAbsent /\ particle = EmptySlot /\ tower = NoTower
    /\ cameraPosition = BasicPose
    /\ auth = LoggedIn
    /\ player = NewPlayer
    /\ towerColumn = NoColumn

PlayerStep(p) ==
    /\ player' = p
    /\ UNCHANGED <<styleVars, waveVars, particle, tower, cameraPosition, auth,
                   towerColumn>>

FilesSelected ==
    /\ Len(player.loads) < MaxPending
    /\ \E files \in Selections : PlayerStep(filesChanged(player, files))

PlayPauseClick ==
    \E clicked \in {playPauseClicked(player)} : PlayerStep(clicked)

NextClick ==
    /\ Len(player.loads) < MaxPending
    /\ PlayerStep(playNextTrack(player))

PrevClick ==
    /\ Len(player.loads) < MaxPending
    /\ PlayerStep(playPreviousTrack(player))

TrackListClick ==
    /\ Len(player.loads) < MaxPending
    /\ \E index \in 0 .. Len(player.audioFiles) - 1 :
          PlayerStep(trackClicked(player, index))

\* a pending load completes; the loads in flight complete in any order
LoadCompleted ==
    /\ player.orphans < MaxOrphans
    /\ \E i \in 1 .. Len(player.loads) :
          PlayerStep(Decoded([player EXCEPT !.loads = RemoveAt(@, i)],
                             player.loads[i]))

\* the interval timer runs updateProgress after the play time has reached the
\* duration of the buffer
TrackEnded ==
    /\ player.audioContext /\ player.audioBuffer # 0 /\ player.isPlaying
    /\ Len(player.loads) < MaxPending
    /\ PlayerStep(updateProgressAtEnd(player))

\* a node that is no longer referenced plays its buffer to the end
OrphanEnded ==
    /\ player.orphans > 0
    /\ PlayerStep([player EXCEPT !.orphans = @ - 1])

PlayerNext ==
    \/ FilesSelected \/ PlayPauseClick \/ NextClick \/ PrevClick
    \/ TrackListClick \/ LoadCompleted \/ TrackEnded \/ OrphanEnded

PlayerSpec == PlayerInit /\ [][PlayerNext]_vars

----------------------------------------------------------------------------
(* Claims about the audio player (checked under PlayerSpec) *)

\* the number of nodes that are started and neither stopped nor ended
PlayingSources == (IF player.source = "started" THEN 1 ELSE 0) + player.orphans

\* C35: for every interleaving of play/pause clicks, next/previous clicks and
\* decode completions, at most one audio buffer source is started and not yet
\* stopped.
C35_AtMostOneSourcePlaying == PlayingSources <= 1

\* C36: once every pending load has completed, the buffer held for playback
\* is the one of audioFiles[currentTrackIndex], in whatever order the
\* overlapping loads completed.
C36_BufferIsCurrentTrack ==
    (player.loads = << >> /\ player.audioFiles # << >> /\ player.audioBuffer # 0)
        => player.audioBuffer = player.audioFiles[player.currentTrackIndex + 1]

----------------------------------------------------------------------------
(* The treadmill on all the towers of one column of the grid (ColumnSpec):   *)
(* the towers createTowersVisualizer gives the same position.x.              *)

MaxColumnTicks == 3      \* animation frames of the column that are explored

\* columns of the grid: for (let x = 0; x < gs.gridSize; x++)
Columns == 0..(gridSize - 1)

\* frequency snapshots of the column's ticks: silence and a full-scale signal
ColumnSpectra == {[i \in 1..SpectrumLen |-> 0], [i \in 1..SpectrumLen |-> 255]}

\* position.x = (x - gridSize / 2 + 0.5) * spacing
towerX(x) == ((2 * x - gridSize + 1) * spacing) \div 2

\* position of the tower of column x and row z in this.towers (push order)
towerIndex(x, row) == x * (2 * gridSize) + row

\* the towers of column x as createTowersVisualizer places them
createColumn(x) ==
    [x |-> x, positionX |-> towerX(x), ticks |-> 0,
     towers |-> [row \in Rows |-> createTower(row)]]

\* this.towers.forEach on the towers of the column:
\* value = dataArray[index % dataArray.length] / 255
updateColumn(c, data, delta) ==
    [x |-> c.x,
     positionX |-> c.positionX,
     ticks |-> c.ticks + 1,
     towers |-> [row \in Rows |->
                    updateTower(c.towers[row],
                                Norm(data[(towerIndex(c.x, row) % Len(data)) + 1]),
                                delta)]]

ColumnInit ==
    /\ StyleInit /\ WaveAbsent /\ particle = EmptySlot /\ tower = NoTower
    /\ cameraPosition = TowersPose
    /\ auth = LoggedIn
    /\ player = NewPlayer
    /\ \E x \in Columns : towerColumn = createColumn(x)

\* one animation frame of the Towers style, seen on the column
ColumnTick ==
    /\ towerColumn.ticks < MaxColumnTicks
    /\ \E data \in ColumnSpectra, delta \in TowerDeltas :
          /\ towerColumn' = updateColumn(towerColumn, data, delta)
          /\ cameraPosition' = moveTowersCamera(cameraPosition, delta)
    /\ UNCHANGED <<styleVars, waveVars, particle, tower, auth, player>>

ColumnNext == ColumnTick

ColumnSpec == ColumnInit /\ [][ColumnNext]_vars

----------------------------------------------------------------------------
(* Claims about the grid (checked under ColumnSpec) *)

\* C40: after any number of ticks no two towers occupy the same (x, z)
\* position: two towers of one column, which share position.x =
\* towerColumn.positionX, never have the same z.
C40_NoTwoTowersAtOnePosition ==
    \A r1, r2 \in DOMAIN towerColumn.towers :
        r1 # r2 => towerColumn.towers[r1].z # towerColumn.towers[r2].z

====
